---------------------------- MODULE Spec2Model ----------------------------
(***************************************************************************)
(* lib.Storage.Memory (libdot/js/lib_storage_memory.js): an in-memory      *)
(* key/value store with an asynchronous interface.  Values are kept as    *)
(* JSON text in a plain object, results and change notifications are      *)
(* delivered from zero-delay timers.                                       *)
(*                                                                         *)
(* JavaScript strings are modelled as sequences of one-character strings, *)
(* so that JSON.stringify and JSON.parse are computed on the characters.  *)
(* JavaScript values are tagged tuples:                                    *)
(*   <<"undefined">>  <<"null">>  <<"bool", b>>  <<"num", n>>              *)
(*   <<"str", chars>>  <<"arr", <<v1, ..., vn>>>>                          *)
(*   <<"obj", << <<key1, v1>>, ..., <<keyn, vn>> >> >>                     *)
(*   <<"Object.prototype">>     the object every {} literal inherits from  *)
(***************************************************************************)
EXTENDS Integers, Sequences, FiniteSets, TLC

(***************************************************************************)
(* JavaScript values                                                       *)
(***************************************************************************)
Undefined == <<"undefined">>

Null == <<"null">>

ObjectPrototype == <<"Object.prototype">>

Bool(b) == <<"bool", b>>

Num(n) == <<"num", n>>

Str(cs) == <<"str", cs>>

Arr(vs) == <<"arr", vs>>

Obj(ps) == <<"obj", ps>>

TypeOf(v) ==
  CASE v[1] = "undefined" -> "undefined"
    [] v[1] = "bool" -> "boolean"
    [] v[1] = "num" -> "number"
    [] v[1] = "str" -> "string"
    [] OTHER -> "object"

(***************************************************************************)
(* JSON.stringify, for the JSON values: null, booleans, integers, strings, *)
(* arrays and objects.                                                     *)
(***************************************************************************)
Digits == <<"0", "1", "2", "3", "4", "5", "6", "7", "8", "9">>

RECURSIVE NatToChars(_)
NatToChars(n) ==
  IF n < 10 THEN <<Digits[n + 1]>>
  ELSE NatToChars(n \div 10) \o <<Digits[(n % 10) + 1]>>

IntToChars(n) == IF n < 0 THEN <<"-">> \o NatToChars(0 - n) ELSE NatToChars(n)

RECURSIVE Quote(_)
Quote(cs) ==
  IF cs = <<>> THEN <<>>
  ELSE IF Head(cs) \in {"\"", "\\"} THEN <<"\\", Head(cs)>> \o Quote(Tail(cs))
  ELSE <<Head(cs)>> \o Quote(Tail(cs))

QuoteString(cs) == <<"\"">> \o Quote(cs) \o <<"\"">>

RECURSIVE JSONstringify(_)
RECURSIVE StringifyElements(_)
RECURSIVE StringifyMembers(_)
StringifyElements(vs) ==
  IF vs = <<>> THEN <<>>
  ELSE JSONstringify(Head(vs))
         \o (IF Tail(vs) = <<>> THEN <<>> ELSE <<",">> \o StringifyElements(Tail(vs)))

StringifyMembers(ps) ==
  IF ps = <<>> THEN <<>>
  ELSE QuoteString(Head(ps)[1]) \o <<":">> \o JSONstringify(Head(ps)[2])
         \o (IF Tail(ps) = <<>> THEN <<>> ELSE <<",">> \o StringifyMembers(Tail(ps)))

JSONstringify(v) ==
  CASE v[1] = "null" -> <<"n", "u", "l", "l">>
    [] v[1] = "bool" -> IF v[2] THEN <<"t", "r", "u", "e">>
                        ELSE <<"f", "a", "l", "s", "e">>
    [] v[1] = "num" -> IntToChars(v[2])
    [] v[1] = "str" -> QuoteString(v[2])
    [] v[1] = "arr" -> <<"[">> \o StringifyElements(v[2]) \o <<"]">>
    [] v[1] = "obj" -> <<"{">> \o StringifyMembers(v[2]) \o <<"}">>

(***************************************************************************)
(* JSON.parse: a recursive-descent parser on the characters.  A parse      *)
(* step yields [ok, v, rest]; a SyntaxError is ok = FALSE.                 *)
(***************************************************************************)
ParseError == [ok |-> FALSE, v |-> Undefined, rest |-> <<>>]

Parsed(v, rest) == [ok |-> TRUE, v |-> v, rest |-> rest]

RECURSIVE SkipSpace(_)
SkipSpace(cs) ==
  IF cs # <<>> /\ Head(cs) = " " THEN SkipSpace(Tail(cs)) ELSE cs

IsPrefix(p, cs) == Len(p) <= Len(cs) /\ SubSeq(cs, 1, Len(p)) = p

DropChars(cs, n) == SubSeq(cs, n + 1, Len(cs))

IsDigit(c) == \E d \in 1..10 : Digits[d] = c

DigitValue(c) == (CHOOSE d \in 1..10 : Digits[d] = c) - 1

\* the digits at the front of cs, read as a decimal number continuing acc
RECURSIVE ParseDigits(_, _)
ParseDigits(cs, acc) ==
  IF cs # <<>> /\ IsDigit(Head(cs))
  THEN ParseDigits(Tail(cs), acc * 10 + DigitValue(Head(cs)))
  ELSE Parsed(acc, cs)

\* int: "0", or a non-zero digit followed by digits; an optional leading "-"
ParseNumber(cs) ==
  LET neg == cs # <<>> /\ Head(cs) = "-"
      ds == IF neg THEN Tail(cs) ELSE cs
  IN IF ds = <<>> \/ ~IsDigit(Head(ds)) THEN ParseError
     ELSE LET r == IF Head(ds) = "0" THEN Parsed(0, Tail(ds))
                   ELSE ParseDigits(ds, 0)
          IN Parsed(Num(IF neg THEN 0 - r.v ELSE r.v), r.rest)

\* the characters after an opening quote, up to the closing quote
RECURSIVE ParseChars(_, _)
ParseChars(cs, acc) ==
  IF cs = <<>> THEN ParseError
  ELSE IF Head(cs) = "\"" THEN Parsed(acc, Tail(cs))
  ELSE IF Head(cs) = "\\"
       THEN IF Len(cs) >= 2 /\ cs[2] \in {"\"", "\\"}
            THEN ParseChars(DropChars(cs, 2), Append(acc, cs[2]))
            ELSE ParseError
  ELSE ParseChars(Tail(cs), Append(acc, Head(cs)))

\* defining a property of an object literal: a repeated name keeps its
\* position and takes the later value
RECURSIVE DefineMember(_, _, _)
DefineMember(ps, k, v) ==
  IF ps = <<>> THEN << <<k, v>> >>
  ELSE IF Head(ps)[1] = k THEN << <<k, v>> >> \o Tail(ps)
  ELSE <<Head(ps)>> \o DefineMember(Tail(ps), k, v)

RECURSIVE ParseValue(_)
RECURSIVE ParseElements(_, _)
RECURSIVE ParseMembers(_, _)
\* cs starts at an element; acc holds the elements read so far
ParseElements(cs, acc) ==
  LET r == ParseValue(SkipSpace(cs))
  IN IF ~r.ok THEN ParseError
     ELSE LET rest == SkipSpace(r.rest)
          IN IF rest = <<>> THEN ParseError
             ELSE IF Head(rest) = "]" THEN Parsed(Arr(Append(acc, r.v)), Tail(rest))
             ELSE IF Head(rest) = "," THEN ParseElements(Tail(rest), Append(acc, r.v))
             ELSE ParseError

\* cs starts at a member name; acc holds the members read so far
ParseMembers(cs, acc) ==
  LET s == SkipSpace(cs)
  IN IF s = <<>> \/ Head(s) # "\"" THEN ParseError
     ELSE LET k == ParseChars(Tail(s), <<>>)
          IN IF ~k.ok THEN ParseError
             ELSE LET c == SkipSpace(k.rest)
                  IN IF c = <<>> \/ Head(c) # ":" THEN ParseError
                     ELSE LET r == ParseValue(SkipSpace(Tail(c)))
                          IN IF ~r.ok THEN ParseError
                             ELSE LET rest == SkipSpace(r.rest)
                                      ps == DefineMember(acc, k.v, r.v)
                                  IN IF rest = <<>> THEN ParseError
                                     ELSE IF Head(rest) = "}"
                                          THEN Parsed(Obj(ps), Tail(rest))
                                     ELSE IF Head(rest) = ","
                                          THEN ParseMembers(Tail(rest), ps)
                                     ELSE ParseError

ParseValue(cs) ==
  IF cs = <<>> THEN ParseError
  ELSE IF IsPrefix(<<"n", "u", "l", "l">>, cs) THEN Parsed(Null, DropChars(cs, 4))
  ELSE IF IsPrefix(<<"t", "r", "u", "e">>, cs) THEN Parsed(Bool(TRUE), DropChars(cs, 4))
  ELSE IF IsPrefix(<<"f", "a", "l", "s", "e">>, cs)
       THEN Parsed(Bool(FALSE), DropChars(cs, 5))
  ELSE IF Head(cs) = "\""
       THEN LET r == ParseChars(Tail(cs), <<>>)
            IN IF r.ok THEN Parsed(Str(r.v), r.rest) ELSE ParseError
  ELSE IF Head(cs) = "["
       THEN LET s == SkipSpace(Tail(cs))
            IN IF s # <<>> /\ Head(s) = "]" THEN Parsed(Arr(<<>>), Tail(s))
               ELSE ParseElements(s, <<>>)
  ELSE IF Head(cs) = "{"
       THEN LET s == SkipSpace(Tail(cs))
            IN IF s # <<>> /\ Head(s) = "}" THEN Parsed(Obj(<<>>), Tail(s))
               ELSE ParseMembers(s, <<>>)
  ELSE ParseNumber(cs)

\* JSON.parse(text): ok = FALSE when it throws
JSONparse(cs) ==
  LET r == ParseValue(SkipSpace(cs))
  IN IF r.ok /\ SkipSpace(r.rest) = <<>> THEN Parsed(r.v, <<>>) ELSE ParseError

\* a read that loses the value when JSON.parse throws
ParseOrNothing(cs) ==
  LET r == JSONparse(cs) IN IF r.ok THEN r.v ELSE Undefined

\* try { value = JSON.parse(value) } catch (e) { keep the raw string }
ParseOrRaw(cs) ==
  LET r == JSONparse(cs) IN IF r.ok THEN r.v ELSE Str(cs)

(***************************************************************************)
(* Property access on the plain objects the code creates with {}            *)
(* (this.storage_, the change event e, the result rv).  own is the          *)
(* function from the object's own property names to their values.  The      *)
(* name __proto__ is an accessor inherited from Object.prototype: reading   *)
(* it yields the prototype, assigning to it creates no own property (a      *)
(* string or undefined is ignored, an object becomes the prototype).        *)
(***************************************************************************)
ProtoKey == "__proto__"

PropGet(own, key) ==
  IF key \in DOMAIN own THEN own[key]
  ELSE IF key = ProtoKey THEN ObjectPrototype
  ELSE Undefined

PropSet(own, key, val) ==
  IF key = ProtoKey /\ key \notin DOMAIN own THEN own
  ELSE [k \in DOMAIN own \cup {key} |-> IF k = key THEN val ELSE own[k]]

PropDelete(own, key) == [k \in DOMAIN own \ {key} |-> own[k]]

EmptyObject == [k \in {} |-> Undefined]

(***************************************************************************)
(* Array helpers, with the 0-based indices of the code                      *)
(***************************************************************************)
\* Array.prototype.indexOf: the first index holding x, or -1
IndexOf(s, x) ==
  IF \E n \in 1..Len(s) : s[n] = x
  THEN (CHOOSE n \in 1..Len(s) : s[n] = x /\ \A m \in 1..(n - 1) : s[m] # x) - 1
  ELSE -1

\* Array.prototype.splice(idx, 1)
Splice(s, idx) == SubSeq(s, 1, idx) \o SubSeq(s, idx + 2, Len(s))

Count(s, x) == Cardinality({n \in 1..Len(s) : s[n] = x})

\* the members of a finite set in some enumeration order
RECURSIVE SeqOfSet(_)
SeqOfSet(S) ==
  IF S = {} THEN <<>>
  ELSE LET x == CHOOSE y \in S : TRUE IN <<x>> \o SeqOfSet(S \ {x})

(***************************************************************************)
(* Bounds and input domains                                                 *)
(***************************************************************************)
MaxCalls == 2

MaxObserverCalls == 4

MaxObservers == 2

Keys == {"a", "b", ProtoKey}

Values == {Num(1), Str(<<"a", "\"">>)}

Callbacks == {"f", "g"}

\* completion callbacks: a function, or none given
NoCallback == "none"

Completions == {"cb", NoCallback}

\* key arrays passed to getItems and removeItems (duplicates allowed)
KeyLists == {<<>>} \cup {<<k>> : k \in Keys} \cup {<<k, l>> : k, l \in Keys}

\* getItems(null, ...)
NullKeys == <<"null">>

\* the objects passed to setItems, as functions from own property names:
\* no, one or two properties
ItemMaps == UNION {[S -> Values] : S \in {{}} \cup {{k, l} : k, l \in Keys}}


(***************************************************************************)
(* State                                                                    *)
(*   observers_, storage_   the fields of the instance; storage_ holds the  *)
(*                          own properties of the object, each a JS string  *)
(*   queue                  the timers set with setTimeout and not yet run  *)
(*   running, cur, i        the observers loop of the timer being run: its  *)
(*                          task and its loop index                         *)
(* History, for stating the properties                                      *)
(*   ncalls                 the number of calls made on the instance        *)
(*   lastCall, lastMut      the latest call, the latest mutating call       *)
(*   delivered              the callbacks invoked by the latest timer       *)
(*   atStart                observers_ when the latest observers loop began *)
(*   touched                the callbacks added or removed since it began   *)
(*   last                   for each key set and not removed since: the     *)
(*                          value last set and the operation that set it    *)
(*   stamps                 for each entry of observers_, the number of the *)
(*                          addObserver call that made it                   *)
(*   removed                the callbacks whose only entry was removed and  *)
(*                          that were not added again                       *)
(***************************************************************************)
VARIABLES observers_, storage_, queue, running, cur, i,
          ncalls, lastCall, lastMut, delivered, atStart, touched, last, stamps, removed

vars == <<observers_, storage_, queue, running, cur, i,
          ncalls, lastCall, lastMut, delivered, atStart, touched, last, stamps,
          removed>>

MutatingOps == {"clear", "setItem", "setItems", "removeItem", "removeItems"}

NotifyingOps == {"clear", "setItem", "setItems"}

\* the record of a call: what it was given and what it found
NoCall ==
  [id |-> 0, op |-> "none", keys |-> {}, hasCb |-> FALSE,
   before |-> EmptyObject, registered |-> <<>>,
   expect |-> Undefined, writer |-> "none", fresh |-> FALSE,
   keysKept |-> <<>>, keysAfter |-> <<>>, cb |-> "none"]

NoTask == [type |-> "none", e |-> EmptyObject, arg |-> Undefined, call |-> NoCall]

\* setTimeout(function() { for (...) this.observers_[i](e) }.bind(this), 0)
ObserversTask(e, call) ==
  [type |-> "observers", e |-> e, arg |-> Undefined, call |-> call]

\* setTimeout(callback, 0)
CallbackTask(call) ==
  [type |-> "callback", e |-> EmptyObject, arg |-> Undefined, call |-> call]

\* a result callback that is not bound to the value read
ResultTaskUnbound(value, call) ==
  [type |-> "result", e |-> EmptyObject, arg |-> Undefined, call |-> call]

\* setTimeout(callback.bind(null, value), 0)
ResultTask(value, call) ==
  [type |-> "result", e |-> EmptyObject, arg |-> value, call |-> call]

\* if (callback) { setTimeout(callback, 0); }
IfCallback(callback, call) ==
  IF callback # NoCallback THEN <<CallbackTask(call)>> ELSE <<>>

\* a schedule that runs the timers set last first
ScheduleLast(timers, tasks) ==
  [n \in 1..Len(tasks) |-> tasks[Len(tasks) + 1 - n]] \o timers

\* setTimeout(f, 0): the timer waits behind those set before it
Schedule(timers, tasks) == timers \o tasks

\* the tasks of the given call that have not started
Pending(call) == {n \in 1..Len(queue) : queue[n].call.id = call.id}

\* no deferred callback or notification of the latest mutating call has run
Fresh ==
  /\ lastMut.id > 0
  /\ Cardinality(Pending(lastMut))
       = (IF lastMut.op \in NotifyingOps THEN 1 ELSE 0) + (IF lastMut.hasCb THEN 1 ELSE 0)

\* what a key holds according to the calls made: the structured value last set
LastOf(key) == IF key \in DOMAIN last THEN last[key].value ELSE Undefined

WriterOf(key) == IF key \in DOMAIN last THEN last[key].by ELSE "none"

\* a call is made from the top level or from inside a running callback
CanCall == ~running \/ i >= 1

\* the calls explored are limited in number
Budget(limit) == ncalls < limit

Init ==
  /\ observers_ = <<>>
  /\ storage_ = EmptyObject
  /\ queue = <<>>
  /\ running = FALSE
  /\ cur = NoTask
  /\ i = 0
  /\ ncalls = 0
  /\ lastCall = NoCall
  /\ lastMut = NoCall
  /\ delivered = <<>>
  /\ atStart = <<>>
  /\ touched = {}
  /\ last = EmptyObject
  /\ stamps = <<>>
  /\ removed = {}

(***************************************************************************)
(* addObserver, removeObserver                                              *)
(***************************************************************************)
addObserver(callback) ==
  /\ CanCall
  /\ Len(observers_) < MaxObservers
  /\ observers_' = Append(observers_, callback)
  /\ stamps' = Append(stamps, ncalls + 1)
  /\ removed' = removed \ {callback}
  /\ touched' = touched \cup {callback}
  /\ ncalls' = ncalls + 1
  /\ lastCall' = [NoCall EXCEPT !.id = ncalls + 1, !.op = "addObserver",
                                !.registered = observers_, !.cb = callback]
  /\ UNCHANGED <<storage_, queue, running, cur, i, lastMut, delivered, atStart, last>>

\* removeObserver that leaves the list as it is
RemoveNothing(list, at) == list

\* the observer list after removeObserver(callback)
RemoveFirst(list, at) == IF at # -1 THEN Splice(list, at) ELSE list

removeObserver(callback) ==
  LET at == IndexOf(observers_, callback)
  IN /\ CanCall
     /\ observers_' = RemoveFirst(observers_, at)
     /\ stamps' = RemoveFirst(stamps, at)
     /\ removed' = IF Count(observers_, callback) = 1
                   THEN removed \cup {callback} ELSE removed
     /\ touched' = IF at # -1 THEN touched \cup {callback} ELSE touched
     /\ ncalls' = ncalls + 1
     /\ lastCall' = [NoCall EXCEPT !.id = ncalls + 1, !.op = "removeObserver",
                                   !.registered = observers_, !.cb = callback]
     /\ UNCHANGED <<storage_, queue, running, cur, i, lastMut, delivered, atStart, last>>

(***************************************************************************)
(* clear                                                                    *)
(***************************************************************************)
\* a clear whose records carry the stored value as newValue
RECURSIVE ClearEventKeepsValue(_, _, _)
ClearEventKeepsValue(keys, store, e) ==
  IF keys = <<>> THEN e
  ELSE ClearEventKeepsValue(Tail(keys), store,
                            PropSet(e, Head(keys),
                                    [oldValue |-> PropGet(store, Head(keys)),
                                     newValue |-> PropGet(store, Head(keys))]))

\* for (var key in this.storage_) e[key] = {oldValue: ..., newValue: undefined}
RECURSIVE ClearEvent(_, _, _)
ClearEvent(keys, store, e) ==
  IF keys = <<>> THEN e
  ELSE ClearEvent(Tail(keys), store,
                  PropSet(e, Head(keys),
                          [oldValue |-> PropGet(store, Head(keys)),
                           newValue |-> Undefined]))

clear(callback) ==
  LET call == [NoCall EXCEPT !.id = ncalls + 1, !.op = "clear",
                             !.keys = DOMAIN storage_,
                             !.hasCb = (callback # NoCallback),
                             !.before = storage_, !.registered = observers_]
      e == ClearEvent(SeqOfSet(DOMAIN storage_), storage_, EmptyObject)
  IN /\ CanCall
     /\ storage_' = EmptyObject
     /\ queue' = Schedule(queue, <<ObserversTask(e, call)>> \o IfCallback(callback, call))
     /\ last' = EmptyObject
     /\ ncalls' = ncalls + 1
     /\ lastCall' = call
     /\ lastMut' = call
     /\ UNCHANGED <<observers_, running, cur, i, delivered, atStart, touched, stamps,
                    removed>>


(***************************************************************************)
(* getItem, getItems                                                        *)
(***************************************************************************)
\* the value getItem hands to its callback
GetItemValue(store, key) ==
  LET value == PropGet(store, key)
  IN IF TypeOf(value) = "string" THEN ParseOrRaw(value[2]) ELSE value

getItem(key) ==
  LET call == [NoCall EXCEPT !.id = ncalls + 1, !.op = "getItem", !.keys = {key},
                             !.hasCb = TRUE, !.before = storage_,
                             !.registered = observers_,
                             !.expect = LastOf(key), !.writer = WriterOf(key),
                             !.fresh = Fresh]
  IN /\ CanCall
     /\ queue' = Schedule(queue, <<ResultTask(GetItemValue(storage_, key), call)>>)
     /\ ncalls' = ncalls + 1
     /\ lastCall' = call
     /\ UNCHANGED <<observers_, storage_, running, cur, i, lastMut, delivered,
                    atStart, touched, last, stamps, removed>>

\* a key/value mapping handed to a callback
Mapping(own) == <<"map", own>>

\* a loop that leaves the absent keys in the caller's array
RECURSIVE GetItemsLoopKeepsKeys(_, _, _, _)
GetItemsLoopKeepsKeys(store, keys, n, rv) ==
  IF n < 0 THEN [rv |-> rv, keys |-> keys]
  ELSE LET key == keys[n + 1]
           value == PropGet(store, key)
       IN IF TypeOf(value) = "string"
          THEN GetItemsLoopKeepsKeys(store, keys, n - 1,
                                     PropSet(rv, key, ParseOrRaw(value[2])))
          ELSE GetItemsLoopKeepsKeys(store, keys, n - 1, rv)

\* for (var i = keys.length - 1; i >= 0; i--) { ... }: n is the loop index
RECURSIVE GetItemsLoop(_, _, _, _)
GetItemsLoop(store, keys, n, rv) ==
  IF n < 0 THEN [rv |-> rv, keys |-> keys]
  ELSE LET key == keys[n + 1]
           value == PropGet(store, key)
       IN IF TypeOf(value) = "string"
          THEN GetItemsLoop(store, keys, n - 1, PropSet(rv, key, ParseOrRaw(value[2])))
          ELSE GetItemsLoop(store, Splice(keys, n), n - 1, rv)

\* if (!keys) keys = Object.keys(this.storage_)
GetItemsKeys(store, keys) == IF keys = NullKeys THEN SeqOfSet(DOMAIN store) ELSE keys

getItems(keys) ==
  LET list == GetItemsKeys(storage_, keys)
      r == GetItemsLoop(storage_, list, Len(list) - 1, EmptyObject)
      asked == IF keys = NullKeys THEN DOMAIN last
               ELSE {keys[n] : n \in 1..Len(keys)}
      given == IF keys = NullKeys THEN DOMAIN storage_ ELSE asked
      kept == SelectSeq(list, LAMBDA k : k \in DOMAIN storage_)
      call == [NoCall EXCEPT !.id = ncalls + 1, !.op = "getItems", !.keys = given,
                             !.hasCb = TRUE, !.before = storage_,
                             !.registered = observers_,
                             !.expect = Mapping([k \in asked \cap DOMAIN last |-> last[k].value]),
                             !.fresh = Fresh, !.keysKept = kept,
                             !.keysAfter = r.keys]
  IN /\ CanCall
     /\ queue' = Schedule(queue, <<ResultTask(Mapping(r.rv), call)>>)
     /\ ncalls' = ncalls + 1
     /\ lastCall' = call
     /\ UNCHANGED <<observers_, storage_, running, cur, i, lastMut, delivered,
                    atStart, touched, last, stamps, removed>>

(***************************************************************************)
(* setItem, setItems                                                        *)
(***************************************************************************)
\* this.storage_[key] = JSON.stringify(value)
StoreItem(store, key, value) == PropSet(store, key, Str(JSONstringify(value)))

\* e[key] = {oldValue: this.storage_[key], newValue: value}
RecordChange(e, store, key, value) ==
  PropSet(e, key, [oldValue |-> PropGet(store, key), newValue |-> value])

setItem(key, value, callback) ==
  LET call == [NoCall EXCEPT !.id = ncalls + 1, !.op = "setItem", !.keys = {key},
                             !.hasCb = (callback # NoCallback),
                             !.before = storage_, !.registered = observers_]
      e == RecordChange(EmptyObject, storage_, key, value)
  IN /\ CanCall
     /\ storage_' = StoreItem(storage_, key, value)
     /\ queue' = Schedule(queue, <<ObserversTask(e, call)>> \o IfCallback(callback, call))
     /\ last' = [k \in DOMAIN last \cup {key} |->
                   IF k = key THEN [value |-> value, by |-> "setItem"] ELSE last[k]]
     /\ ncalls' = ncalls + 1
     /\ lastCall' = call
     /\ lastMut' = call
     /\ UNCHANGED <<observers_, running, cur, i, delivered, atStart, touched, stamps,
                    removed>>

\* for (var key in obj) { e[key] = ...; this.storage_[key] = ...; }
RECURSIVE SetItemsLoop(_, _, _, _)
SetItemsLoop(keys, obj, store, e) ==
  IF keys = <<>> THEN [store |-> store, e |-> e]
  ELSE SetItemsLoop(Tail(keys), obj,
                    StoreItem(store, Head(keys), obj[Head(keys)]),
                    RecordChange(e, store, Head(keys), obj[Head(keys)]))

\* the change events one setItems call hands to setTimeout
SetItemsEvents(e) == <<e>>

setItems(obj, callback) ==
  LET call == [NoCall EXCEPT !.id = ncalls + 1, !.op = "setItems",
                             !.keys = DOMAIN obj,
                             !.hasCb = (callback # NoCallback),
                             !.before = storage_, !.registered = observers_]
      r == SetItemsLoop(SeqOfSet(DOMAIN obj), obj, storage_, EmptyObject)
      events == SetItemsEvents(r.e)
  IN /\ CanCall
     /\ storage_' = r.store
     /\ queue' = Schedule(queue,
                          [n \in 1..Len(events) |-> ObserversTask(events[n], call)]
                            \o IfCallback(callback, call))
     /\ last' = [k \in DOMAIN last \cup DOMAIN obj |->
                   IF k \in DOMAIN obj THEN [value |-> obj[k], by |-> "setItems"]
                   ELSE last[k]]
     /\ ncalls' = ncalls + 1
     /\ lastCall' = call
     /\ lastMut' = call
     /\ UNCHANGED <<observers_, running, cur, i, delivered, atStart, touched, stamps,
                    removed>>

(***************************************************************************)
(* removeItem, removeItems                                                  *)
(***************************************************************************)
\* a removal that notifies the observers as setItem does
RemovalTasksNotifying(callback, call) ==
  <<ObserversTask(EmptyObject, call)>> \o IfCallback(callback, call)

\* what a removal hands to setTimeout: its callback, if given
RemovalTasks(callback, call) == IfCallback(callback, call)

removeItem(key, callback) ==
  LET call == [NoCall EXCEPT !.id = ncalls + 1, !.op = "removeItem", !.keys = {key},
                             !.hasCb = (callback # NoCallback),
                             !.before = storage_, !.registered = observers_]
  IN /\ CanCall
     /\ storage_' = PropDelete(storage_, key)
     /\ queue' = Schedule(queue, RemovalTasks(callback, call))
     /\ last' = [k \in DOMAIN last \ {key} |-> last[k]]
     /\ ncalls' = ncalls + 1
     /\ lastCall' = call
     /\ lastMut' = call
     /\ UNCHANGED <<observers_, running, cur, i, delivered, atStart, touched, stamps,
                    removed>>

\* for (var i = 0; i < ary.length; i++) delete this.storage_[ary[i]]
RECURSIVE RemoveItemsLoop(_, _)
RemoveItemsLoop(ary, store) ==
  IF ary = <<>> THEN store
  ELSE RemoveItemsLoop(Tail(ary), PropDelete(store, Head(ary)))

removeItems(ary, callback) ==
  LET named == {ary[n] : n \in 1..Len(ary)}
      call == [NoCall EXCEPT !.id = ncalls + 1, !.op = "removeItems", !.keys = named,
                             !.hasCb = (callback # NoCallback),
                             !.before = storage_, !.registered = observers_]
  IN /\ CanCall
     /\ storage_' = RemoveItemsLoop(ary, storage_)
     /\ queue' = Schedule(queue, RemovalTasks(callback, call))
     /\ last' = [k \in DOMAIN last \ named |-> last[k]]
     /\ ncalls' = ncalls + 1
     /\ lastCall' = call
     /\ lastMut' = call
     /\ UNCHANGED <<observers_, running, cur, i, delivered, atStart, touched, stamps,
                    removed>>

(***************************************************************************)
(* The event loop: one timer at a time, run to completion.  The observers   *)
(* loop of a timer is split at the calls to the observers, whose bodies may *)
(* call back into the instance.                                             *)
(***************************************************************************)
Invocation(kind, cb, stamp, task) ==
  [kind |-> kind, cb |-> cb, stamp |-> stamp, e |-> task.e, arg |-> task.arg,
   call |-> task.call]

\* a timer that fires while an observer of another timer is being called
RunTimerNested ==
  /\ queue # <<>>
  /\ queue' = Tail(queue)
  /\ cur' = Head(queue)
  /\ IF Head(queue).type = "observers"
     THEN /\ running' = TRUE
          /\ i' = 0
          /\ delivered' = <<>>
          /\ atStart' = observers_
          /\ touched' = {}
     ELSE /\ delivered' = <<Invocation(Head(queue).type, "caller", 0, Head(queue))>>
          /\ UNCHANGED <<running, i, atStart, touched>>
  /\ UNCHANGED <<observers_, storage_, ncalls, lastCall, lastMut, last, stamps, removed>>

\* the timers were all set with the same delay: they fire in the order set
RunTimer ==
  /\ ~running
  /\ queue # <<>>
  /\ queue' = Tail(queue)
  /\ cur' = Head(queue)
  /\ IF Head(queue).type = "observers"
     THEN /\ running' = TRUE
          /\ i' = 0
          /\ delivered' = <<>>
          /\ atStart' = observers_
          /\ touched' = {}
     ELSE /\ delivered' = <<Invocation(Head(queue).type, "caller", 0, Head(queue))>>
          /\ UNCHANGED <<running, i, atStart, touched>>
  /\ UNCHANGED <<observers_, storage_, ncalls, lastCall, lastMut, last, stamps, removed>>

\* a loop that walks the observers from the last to the first
ObserverIndexReversed(n) == Len(observers_) - n

\* this.observers_[n]: the position the loop reads at index n
ObserverIndex(n) == n + 1

\* i < this.observers_.length: this.observers_[i](e); i++
InvokeObserver ==
  /\ running
  /\ i < Len(observers_)
  /\ delivered' = Append(delivered,
                          Invocation("observer", observers_[ObserverIndex(i)],
                                     stamps[ObserverIndex(i)], cur))
  /\ i' = i + 1
  /\ UNCHANGED <<observers_, storage_, queue, running, cur, ncalls, lastCall, lastMut,
                 atStart, touched, last, stamps, removed>>

\* a loop that does not end
FinishObserversNever ==
  /\ running
  /\ i >= Len(observers_)
  /\ UNCHANGED vars

\* i >= this.observers_.length: the loop and the timer end
FinishObservers ==
  /\ running
  /\ i >= Len(observers_)
  /\ running' = FALSE
  /\ UNCHANGED <<observers_, storage_, queue, cur, i, ncalls, lastCall, lastMut,
                 delivered, atStart, touched, last, stamps, removed>>

Timers ==
  \/ RunTimer
  \/ InvokeObserver
  \/ FinishObservers

Next ==
  \/ Budget(MaxCalls) /\ \E callback \in Callbacks : addObserver(callback)
  \/ Budget(MaxCalls) /\ \E callback \in Callbacks : removeObserver(callback)
  \/ Budget(MaxCalls) /\ \E callback \in Completions : clear(callback)
  \/ Budget(MaxCalls) /\ \E key \in Keys : getItem(key)
  \/ Budget(MaxCalls) /\ \E keys \in KeyLists \cup {NullKeys} : getItems(keys)
  \/ Budget(MaxCalls) /\ \E key \in Keys, value \in Values, callback \in Completions :
       setItem(key, value, callback)
  \/ Budget(MaxCalls) /\ \E obj \in ItemMaps, callback \in Completions :
       setItems(obj, callback)
  \/ Budget(MaxCalls) /\ \E key \in Keys, callback \in Completions :
       removeItem(key, callback)
  \/ Budget(MaxCalls) /\ \E ary \in KeyLists, callback \in Completions :
       removeItems(ary, callback)
  \/ Timers

Spec == Init /\ [][Next]_vars

\* the observer protocol, with one key and one value
NextObservers ==
  \/ Budget(MaxObserverCalls) /\ \E callback \in Callbacks : addObserver(callback)
  \/ Budget(MaxObserverCalls) /\ \E callback \in Callbacks : removeObserver(callback)
  \/ Budget(MaxObserverCalls) /\ \E callback \in Completions : clear(callback)
  \/ Budget(MaxObserverCalls) /\ \E callback \in Completions :
       setItem("a", Num(1), callback)
  \/ Budget(MaxObserverCalls) /\ \E callback \in Completions :
       setItems([k \in {"a", "b"} |-> Num(1)], callback)
  \/ Budget(MaxObserverCalls) /\ \E callback \in Completions : removeItem("a", callback)
  \/ Budget(MaxObserverCalls) /\ \E callback \in Completions :
       removeItems(<<"a", "b">>, callback)
  \/ Timers

SpecObservers == Init /\ [][NextObservers]_vars

(***************************************************************************)
(* Properties                                                               *)
(***************************************************************************)
Range(s) == {s[n] : n \in 1..Len(s)}

\* the read results handed to callers by the latest timer
Results == {d \in Range(delivered) : d.kind = "result"}

\* the tasks set and not finished: those waiting and the one running
Tasks == Range(queue) \cup (IF running THEN {cur} ELSE {})

\* C1: round trip.  The callback of getItem(k) is invoked with the value v
\* of the latest setItem(k, v), when k was not written or removed since.
RoundTrip ==
  \A d \in Results :
    (d.call.op = "getItem" /\ d.call.writer = "setItem") => d.arg = d.call.expect

\* C2: synchronous visibility.  A getItem or getItems call made while every
\* deferred callback and notification of the latest mutating call is still
\* waiting delivers the state after that mutation: for getItem the value last
\* set for the key (none after a removal or clear), for getItems the mapping
\* of the requested keys that are set to their values.
SynchronousVisibility ==
  \A d \in Results : d.call.fresh => d.arg = d.call.expect

\* the observers tasks among the given tasks
ObserversTasks(tasks) == {t \in tasks : t.type = "observers"}

\* the number of times the latest timer invoked the observer cb
Invocations(cb) ==
  Cardinality({n \in 1..Len(delivered) :
                 delivered[n].kind = "observer" /\ delivered[n].cb = cb})

\* the latest timer was an observers loop and it has finished
Dispatched == ~running /\ cur.type = "observers"

\* a step that is a call of one of the given operations
CallOf(ops) == ncalls' = ncalls + 1 /\ lastCall'.op \in ops

\* the tasks a step appended to the queue
NewTasks == SubSeq(queue', Len(queue) + 1, Len(queue'))

\* the invocations a step made
NewInvocations ==
  IF Len(delivered') = Len(delivered) + 1
       /\ SubSeq(delivered', 1, Len(delivered)) = delivered
  THEN {delivered'[Len(delivered')]}
  ELSE IF delivered' # delivered THEN Range(delivered') ELSE {}

\* C3: batch notification.  One setItems(map) call makes one change event,
\* whose keys are exactly the keys of map, and each registered observer is
\* invoked with it exactly once per registration.
BatchNotification ==
  /\ \A t \in ObserversTasks(Tasks) :
       t.call.op = "setItems" =>
         /\ DOMAIN t.e = t.call.keys
         /\ \A u \in ObserversTasks(Tasks) : u.call.id = t.call.id => u = t
  /\ (Dispatched /\ cur.call.op = "setItems") =>
       /\ \A cb \in Callbacks : Invocations(cb) = Count(atStart, cb)
       /\ \A d \in Range(delivered) : d.e = cur.e

\* C4: no-notify removal.  A removeItem or removeItems call deletes exactly
\* the named keys and hands setTimeout its completion callback and nothing
\* else; no observer is ever invoked for a removal, and when the completion
\* callback of a removal is invoked no other task of that call is left.
NoNotifyRemoval ==
  [][/\ CallOf({"removeItem", "removeItems"}) =>
          /\ DOMAIN storage_' = DOMAIN storage_ \ lastCall'.keys
          /\ \A k \in DOMAIN storage_' : storage_'[k] = storage_[k]
          /\ SubSeq(queue', 1, Len(queue)) = queue
          /\ NewTasks = (IF lastCall'.hasCb THEN <<CallbackTask(lastCall')>> ELSE <<>>)
     /\ \A d \in NewInvocations :
          d.call.op \in {"removeItem", "removeItems"} =>
            /\ d.kind = "callback"
            /\ \A t \in Range(queue') : t.call.id # d.call.id
    ]_vars

\* C4 witness: the completion callback of a removeItem of a key that was
\* set, made while an observer was registered, has been invoked.
RemovalCallbackInvoked ==
  \E d \in Range(delivered) :
    /\ d.kind = "callback"
    /\ d.call.op = "removeItem"
    /\ d.call.keys \subseteq DOMAIN d.call.before
    /\ d.call.registered # <<>>

\* C5: clear.  A clear call leaves the map empty and makes exactly one change
\* event, whose keys are the keys the map held just before the call and whose
\* records all have no newValue.
ClearSemantics ==
  [][CallOf({"clear"}) =>
       /\ storage_' = EmptyObject
       /\ SubSeq(queue', 1, Len(queue)) = queue
       /\ Len(SelectSeq(NewTasks, LAMBDA t : t.type = "observers")) = 1
       /\ \A t \in ObserversTasks(Range(NewTasks)) :
            /\ DOMAIN t.e = DOMAIN storage_
            /\ \A k \in DOMAIN t.e : t.e[k].newValue = Undefined
    ]_vars

\* C5 witness: clear was called on a map holding two keys and its event waits.
ClearedTwoKeys ==
  /\ lastCall.op = "clear"
  /\ Cardinality(DOMAIN lastCall.before) = 2
  /\ storage_ = EmptyObject
  /\ \E t \in ObserversTasks(Range(queue)) :
       t.call.id = lastCall.id /\ Cardinality(DOMAIN t.e) = 2

\* C6: the change event of clear carries as oldValue of each key the
\* structured value getItem would have delivered for it just before the call.
ClearOldValues ==
  \A t \in ObserversTasks(Tasks) :
    t.call.op = "clear" =>
      \A k \in DOMAIN t.e : t.e[k].oldValue = GetItemValue(t.call.before, k)

\* a step in which the loop invokes the observer cb
Invokes(cb) == \E d \in NewInvocations : d.kind = "observer" /\ d.cb = cb

\* C7: after removeObserver(cb) has removed the only registration of cb, cb
\* is not invoked again for as long as it is not registered again, whatever
\* is called afterwards and whatever notifications were waiting.
RemovedObserverSilent ==
  [][\A cb \in removed : ~Invokes(cb)]_vars

\* C7 witness: an event set while cb was registered was dispatched after cb
\* was removed, to another observer and not to cb.
PendingEventSkipsRemoved ==
  \E cb \in removed :
    /\ Dispatched
    /\ cb \in Range(cur.call.registered)
    /\ Invocations(cb) = 0
    /\ delivered # <<>>

\* C8: duplicate registration.  A callback that is registered n times and is
\* neither added nor removed while an event is dispatched is invoked exactly
\* n times with that event.
DuplicateRegistration ==
  Dispatched => \A cb \in Callbacks \ touched : Invocations(cb) = Count(atStart, cb)

OneOrderedBatch ==
  /\ []((\E d \in Range(delivered) : d.kind = "observer") =>
          /\ cur.type = "observers"
          /\ \A d \in Range(delivered) :
               d.kind = "observer" /\ d.e = cur.e /\ d.call = cur.call
          /\ \A m, n \in 1..Len(delivered) :
               m < n => delivered[m].stamp < delivered[n].stamp
          /\ \A t \in Range(queue) : t.call.id # cur.call.id \/ t.type # "observers")
  /\ [][CallOf(NotifyingOps) =>
          /\ SubSeq(queue', 1, Len(queue)) = queue
          /\ Len(SelectSeq(NewTasks, LAMBDA t : t.type = "observers")) = 1]_vars

\* C10 witness: one event was dispatched to two observers while the
\* completion callback of its call was waiting.
TwoObserversOneTurn ==
  /\ Dispatched
  /\ Len(delivered) = 2
  /\ delivered[1].cb # delivered[2].cb
  /\ \E t \in Range(queue) : t.type = "callback" /\ t.call.id = cur.call.id

\* C11: no callback and no observer is invoked by the call that sets it up: a
\* call of any operation invokes nothing and only adds timers behind those
\* waiting; every invocation is made by a timer taken from the queue, for a
\* call made before, and a timer is taken only when no other timer is running.
NeverInline ==
  [][/\ (ncalls' # ncalls) =>
          /\ delivered' = delivered
          /\ SubSeq(queue', 1, Len(queue)) = queue
          /\ running' = running
     /\ \A d \in NewInvocations :
          /\ ncalls' = ncalls
          /\ d.call.id <= ncalls
          /\ (d.kind = "observer") => (running /\ d.call = cur.call /\ cur \notin Range(queue))
          /\ (d.kind # "observer") =>
               (~running /\ queue # <<>> /\ d.call = Head(queue).call)
     /\ (Len(queue') < Len(queue)) => (~running /\ ncalls' = ncalls)
    ]_vars

\* C11 witness: setItem was called with a completion callback while an
\* observer was registered; both its timers wait and nothing was invoked.
SetItemReturnedBeforeDelivery ==
  /\ lastCall.op = "setItem"
  /\ lastCall.hasCb
  /\ observers_ # <<>>
  /\ Cardinality(Pending(lastCall)) = 2
  /\ delivered = <<>>

(***************************************************************************)
(* Liveness: the host keeps running the timers (weak fairness of Timers).   *)
(***************************************************************************)
MaxLiveCalls == 2

NextLive ==
  \/ Budget(MaxLiveCalls) /\ \E callback \in Callbacks : addObserver(callback)
  \/ Budget(MaxLiveCalls) /\ \E callback \in Callbacks : removeObserver(callback)
  \/ Budget(MaxLiveCalls) /\ \E callback \in Completions : clear(callback)
  \/ Budget(MaxLiveCalls) /\ getItem("a")
  \/ Budget(MaxLiveCalls) /\ getItems(<<"a", "b">>)
  \/ Budget(MaxLiveCalls) /\ \E callback \in Completions : setItem("a", Num(1), callback)
  \/ Budget(MaxLiveCalls) /\ \E callback \in Completions :
       setItems([k \in {"a", "b"} |-> Num(1)], callback)
  \/ Budget(MaxLiveCalls) /\ \E callback \in Completions : removeItem("a", callback)
  \/ Budget(MaxLiveCalls) /\ \E callback \in Completions :
       removeItems(<<"a", "b">>, callback)
  \/ Timers

SpecLive == Init /\ [][NextLive]_vars /\ WF_vars(Timers)

TaskTypes == {"observers", "callback", "result"}

\* the timer of the given type set by the given call waits
Waits(id, type) == \E t \in Range(queue) : t.call.id = id /\ t.type = type

\* the timer of the given type set by the given call was the latest to run,
\* and it has finished
Ran(id, type) == ~running /\ cur.call.id = id /\ cur.type = type

\* C12: every timer set by a call is eventually run to its end, once: a step
\* either leaves the queue alone, or adds the timers of a call behind those
\* waiting, or takes the first timer to run it; no timer waits twice, and a
\* timer that was run does not wait again.
EventuallyRunsOnce ==
  /\ \A id \in 1..MaxLiveCalls : \A type \in TaskTypes :
       Waits(id, type) ~> Ran(id, type)
  /\ [][\/ queue' = queue
        \/ ncalls' = ncalls + 1 /\ SubSeq(queue', 1, Len(queue)) = queue
        \/ queue # <<>> /\ queue' = Tail(queue) /\ cur' = Head(queue)]_vars
  /\ [](\A m, n \in 1..Len(queue) : m # n => queue[m] # queue[n])
  /\ [](\A t \in Range(queue) : t # cur)

\* C12 witness: the result callback of a read was invoked while the timers of
\* a clear called after the read wait.
ResultRanDespiteClear ==
  /\ cur.type = "result"
  /\ delivered # <<>>
  /\ \E t \in Range(queue) : t.call.op = "clear" /\ t.call.id > cur.call.id

\* C13: the mapping getItems delivers has exactly the requested keys that the
\* map held when the call was made (with null for the keys: all the keys the
\* map held), and the call leaves in the array it was given exactly the keys
\* the map held, in the order they had in the array.
GetItemsResult ==
  \A d \in Results :
    d.call.op = "getItems" =>
      /\ d.arg[1] = "map"
      /\ DOMAIN d.arg[2] = d.call.keys \cap DOMAIN d.call.before
      /\ d.call.keysAfter = d.call.keysKept
      /\ Range(d.call.keysAfter) = d.call.keys \cap DOMAIN d.call.before

\* C13 witness: getItems was called with an array naming a key the map held
\* and a key it did not hold, and its result was delivered.
GetItemsDroppedAbsentKey ==
  \E d \in Results :
    /\ d.call.op = "getItems"
    /\ ~(d.call.keys \subseteq DOMAIN d.call.before)
    /\ Len(d.call.keysAfter) = 1
    /\ DOMAIN d.arg[2] # {}

(***************************************************************************)
(* Stored text that is not JSON: the caller writes a string into storage_   *)
(* directly, and reads it back through the interface.                       *)
(***************************************************************************)
MaxRawCalls == 3

\* strings JSON.parse rejects
NonJSON == {<<"x">>, <<"{", "1">>}

RawStrings == NonJSON \cup {<<"1">>}

\* storage.storage_[key] = text
insertRaw(key, text) ==
  /\ CanCall
  /\ storage_' = PropSet(storage_, key, Str(text))
  /\ last' = [k \in DOMAIN last \ {key} |-> last[k]]
  /\ ncalls' = ncalls + 1
  /\ lastCall' = [NoCall EXCEPT !.id = ncalls + 1, !.op = "insertRaw", !.keys = {key},
                                !.before = storage_, !.registered = observers_]
  /\ UNCHANGED <<observers_, queue, running, cur, i, lastMut, delivered, atStart,
                 touched, stamps, removed>>

NextRaw ==
  \/ Budget(MaxRawCalls) /\ \E key \in {"a", ProtoKey}, text \in RawStrings :
       insertRaw(key, text)
  \/ Budget(MaxRawCalls) /\ \E key \in {"a", "b", ProtoKey} : getItem(key)
  \/ Budget(MaxRawCalls) /\ \E keys \in {<<"b", "a">>, <<ProtoKey>>, NullKeys} :
       getItems(keys)
  \/ RunTimer

SpecRaw == Init /\ [][NextRaw]_vars

\* C14: when the string stored under a key is not JSON, getItem delivers that
\* string as it is stored and getItems delivers it under that key; and every
\* getItem or getItems call, whatever is stored, sets exactly one timer, for
\* its result callback.
RawStringDelivered ==
  /\ [](\A d \in Results : \A k \in d.call.keys :
          (k \in DOMAIN d.call.before /\ d.call.before[k] \in {Str(s) : s \in NonJSON}) =>
            /\ d.call.op = "getItem" => d.arg = d.call.before[k]
            /\ d.call.op = "getItems" =>
                 (k \in DOMAIN d.arg[2] /\ d.arg[2][k] = d.call.before[k]))
  /\ [][CallOf({"getItem", "getItems"}) =>
          /\ SubSeq(queue', 1, Len(queue)) = queue
          /\ Len(NewTasks) = 1
          /\ NewTasks[1].type = "result"
          /\ NewTasks[1].call = lastCall']_vars

\* C14 witness: getItems delivered, under its key, a stored string that
\* JSON.parse rejects.
RawStringRead ==
  \E d \in Results :
    /\ d.call.op = "getItems"
    /\ \E k \in DOMAIN d.arg[2] :
         /\ ~JSONparse(d.call.before[k][2]).ok
         /\ d.arg[2][k] = d.call.before[k]

\* C15: a setItem(key, value) call makes exactly one change event; the only
\* key of the event is key, its oldValue is the string that was stored under
\* key just before the call (nothing when the key was not set) and its
\* newValue is value, the value the call stores.
SetItemEvent ==
  [][CallOf({"setItem"}) =>
       /\ SubSeq(queue', 1, Len(queue)) = queue
       /\ Len(SelectSeq(NewTasks, LAMBDA t : t.type = "observers")) = 1
       /\ \A t \in ObserversTasks(Range(NewTasks)) :
            /\ DOMAIN t.e = lastCall'.keys
            /\ \A k \in DOMAIN t.e :
                 /\ t.e[k].oldValue
                      = (IF k \in DOMAIN storage_ THEN storage_[k] ELSE Undefined)
                 /\ t.e[k].newValue = GetItemValue(storage_', k)
    ]_vars

\* C16: the observers loop works on the observer list as it was when the loop
\* began: the callbacks that were not added or removed during the loop are
\* invoked as they stood in the list when it began, each once per
\* registration and in that order.
SnapshotIteration ==
  Dispatched =>
    LET invoked == [n \in 1..Len(delivered) |-> delivered[n].cb]
        Untouched(cb) == cb \notin touched
    IN SelectSeq(invoked, Untouched) = SelectSeq(atStart, Untouched)

\* the positions of the observer list that hold cb
Positions(list, cb) == {n \in 1..Len(list) : list[n] = cb}

\* the list without its entry at position at
Without(list, at) == [n \in 1..(Len(list) - 1) |-> list[IF n < at THEN n ELSE n + 1]]

\* C17: removeObserver(cb) takes out of the observer list the entry that holds
\* cb and was registered first, and nothing else; the list is left as it is
\* when no entry holds cb.  addObserver and removeObserver leave the map and
\* the timers as they are.
RemoveObserverFrame ==
  [][/\ CallOf({"removeObserver"}) =>
          LET at == Positions(observers_, lastCall'.cb)
          IN IF at = {}
             THEN observers_' = observers_ /\ stamps' = stamps
             ELSE LET first == CHOOSE n \in at : \A m \in at : n <= m
                  IN /\ observers_' = Without(observers_, first)
                     /\ stamps' = Without(stamps, first)
     /\ CallOf({"addObserver", "removeObserver"}) =>
          (storage_' = storage_ /\ queue' = queue)
    ]_vars

\* C17 witness: removeObserver(cb) was called with cb registered twice, and
\* the registration made later is the one left.
RemovedFirstOfTwo ==
  /\ lastCall.op = "removeObserver"
  /\ lastCall.registered = <<lastCall.cb, lastCall.cb>>
  /\ observers_ = <<lastCall.cb>>
  /\ \E n \in 1..lastCall.id : stamps = <<n>> /\ \E m \in 1..(n - 1) : m \notin Range(stamps)
  /\ storage_ # EmptyObject

\* the result timers waiting or just run, as [arg, call]
ResultsSet ==
  {[arg |-> t.arg, call |-> t.call] : t \in {u \in Range(queue) : u.type = "result"}}
    \cup {[arg |-> d.arg, call |-> d.call] : d \in Results}

\* C18: with the timers run in the order they were set, the completion
\* callback of a clear, setItem or setItems call is invoked after the
\* observers loop of that call has ended: the timer of the loop waits ahead of
\* the timer of the callback, and the timer run just before the callback is
\* that loop.
ObserversBeforeCallback ==
  /\ [](\A m, n \in 1..Len(queue) :
          (queue[m].call.id = queue[n].call.id
             /\ queue[m].type = "observers" /\ queue[n].type = "callback") => m < n)
  /\ [][\A d \in NewInvocations :
          (d.kind = "callback" /\ d.call.op \in NotifyingOps) =>
            /\ ~running
            /\ cur.type = "observers"
            /\ cur.call.id = d.call.id
            /\ \A t \in Range(queue') : t.call.id # d.call.id]_vars

\* C18 witness: the completion callback of a setItem call was invoked, after
\* the loop of that call had invoked an observer.
CallbackRanAfterObserver ==
  /\ cur.type = "callback"
  /\ cur.call.op = "setItem"
  /\ delivered = <<Invocation("callback", "caller", 0, cur)>>
  /\ atStart # <<>>
  /\ touched = {}

\* C19: the callback of getItem or getItems receives what the call read from
\* the map as it was when the call was made, whatever was set, removed or
\* cleared between the call and the callback.
ReadCapturedAtCall ==
  \A r \in ResultsSet :
    /\ r.call.op = "getItem" =>
         \A k \in r.call.keys : r.arg = GetItemValue(r.call.before, k)
    /\ r.call.op = "getItems" =>
         /\ r.arg[1] = "map"
         /\ \A k \in DOMAIN r.arg[2] : r.arg[2][k] = GetItemValue(r.call.before, k)

\* C19 witness: the result timer of a getItem call waits, and the map no
\* longer holds under the key what it held when the call was made.
MapChangedBeforeResult ==
  \E t \in Range(queue) :
    /\ t.type = "result"
    /\ t.call.op = "getItem"
    /\ \E k \in t.call.keys :
         /\ PropGet(storage_, k) # PropGet(t.call.before, k)
         /\ t.arg = GetItemValue(t.call.before, k)
         /\ t.arg # GetItemValue(storage_, k)

\* C20: with the timers run in the order they were set, the events of
\* successive clear, setItem and setItems calls are dispatched in the order of
\* the calls, and each event holds what its call recorded: as oldValue what
\* the map held under the key just before that call, as newValue what that
\* call stored (nothing for clear); the event an observer is invoked with is
\* the one its call handed to the timer.
EventsInCallOrder ==
  /\ [](\A m, n \in 1..Len(queue) : m < n => queue[m].call.id <= queue[n].call.id)
  /\ [](\A t \in Range(queue) : cur.call.id <= t.call.id)
  /\ [][CallOf(NotifyingOps) =>
          \A t \in ObserversTasks(Range(NewTasks)) :
            \A k \in DOMAIN t.e :
              /\ t.e[k].oldValue = PropGet(storage_, k)
              /\ t.e[k].newValue
                   = (IF lastCall'.op = "clear" THEN Undefined
                      ELSE GetItemValue(storage_', k))]_vars
  /\ [][\/ queue' = queue
        \/ Len(queue') > Len(queue) /\ SubSeq(queue', 1, Len(queue)) = queue
        \/ queue # <<>> /\ queue' = Tail(queue) /\ cur' = Head(queue)]_vars
  /\ [][\A d \in NewInvocations : d.kind = "observer" => d.e = cur.e]_vars

\* C20 witness: with an observer registered, the event of a setItem call and
\* behind it the event of a later clear wait; the first holds the value set
\* although the map is empty, the second holds as oldValue the string stored.
TwoEventsWait ==
  /\ observers_ # <<>>
  /\ storage_ = EmptyObject
  /\ \E m, n \in 1..Len(queue) :
       /\ m < n
       /\ queue[m].type = "observers" /\ queue[m].call.op = "setItem"
       /\ queue[n].type = "observers" /\ queue[n].call.op = "clear"
       /\ queue[m].e["a"].newValue = Num(1)
       /\ queue[n].e["a"].oldValue = Str(<<"1">>)

=============================================================================
